---------------------------- MODULE Spec2Model ----------------------------
(***************************************************************************)
(* Xiangqi-Claw: the rule engine (lib/xiangqi.ts), the position codec      *)
(* (lib/fen.ts), the game state machine (hooks/useGame.ts) and the board   *)
(* editor's position handling (components/BoardEditor), the move notation  *)
(* (lib/notation.ts) and the analysis client (hooks/useEngine.ts) with the *)
(* analysis dispatcher it talks to.                                        *)
(*                                                                         *)
(* Conventions.  A board is a sequence of rows, a row a sequence of        *)
(* cells; source row r / column c (0-based) is board[r+1][c+1].  A piece   *)
(* is its one-character symbol; the source's null is the value null.  A    *)
(* board-state text (FEN) is the sequence of its characters.  The source   *)
(* returns move lists as arrays; every caller only tests membership or     *)
(* emptiness, so a list is modelled by the set of its elements.            *)
(***************************************************************************)
EXTENDS Integers, Sequences, FiniteSets, TLC

VARIABLES
    baseFen,       \* useGame: baseFen
    position,      \* useGame: position
    moveHistory,   \* useGame: moveHistory, a sequence of [uci, fen]
    currentIndex,  \* useGame: currentIndex (-1 = base position)
    gameOver,      \* useGame: gameOver (null or a label)
    lastCall,      \* history: the last operation of the hook and what it returned
    before,        \* history: the hook's state before the last tryMove
    edBoard,       \* BoardEditor: board
    edTurn,        \* BoardEditor: turn
    edFen,         \* BoardEditor: currentFen
    connected,     \* useEngine: connected
    info,          \* useEngine: info (null or the progress event shown)
    result,        \* useEngine: result (null or the result event shown)
    analysing,     \* useEngine: analysing
    wsState,       \* the WebSocket: "connecting", "open" or "closed"
    toServer,      \* requests sent and not yet received by the dispatcher
    toClient,      \* events relayed and not yet received by the client
    server,        \* the dispatcher and the searches of its engine session
    nextReq,       \* history: the sequence number of the next request
    delivered,     \* history: the info / result events the client has shown
    analysed,      \* history: the text of each request sent, by sequence number
    explainData,   \* App: explainData (null or what the explanation is given)
    prevFenRef,    \* App: prevFenRef.current, the text last sent for analysis
    lib            \* a call of a library function: its arguments and its result

gameVars == <<baseFen, position, moveHistory, currentIndex, gameOver>>
edVars == <<edBoard, edTurn, edFen>>
engVars == <<connected, info, result, analysing, wsState, toServer, toClient,
            server, nextReq, delivered, analysed>>
uiVars == <<explainData, prevFenRef>>
vars == <<baseFen, position, moveHistory, currentIndex, gameOver, lastCall, before,
          edBoard, edTurn, edFen, connected, info, result, analysing, wsState,
          toServer, toClient, server, nextReq, delivered, analysed, explainData,
          prevFenRef, lib>>

null == "null"

FILES == <<"a", "b", "c", "d", "e", "f", "g", "h", "i">>
RED_PIECES == {"K", "R", "N", "B", "A", "C", "P"}
BLACK_PIECES == {"k", "r", "n", "b", "a", "c", "p"}
PieceChar == RED_PIECES \cup BLACK_PIECES
Side == {"w", "b"}

Sq(r, c) == [row |-> r, col |-> c]

---------------------------------------------------------------------------
(* Characters: String.prototype.toUpperCase / toLowerCase / parseInt on the *)
(* characters a board-state text is made of.                                *)

toUpperCase(ch) ==
    CASE ch = "k" -> "K" [] ch = "r" -> "R" [] ch = "n" -> "N"
      [] ch = "b" -> "B" [] ch = "a" -> "A" [] ch = "c" -> "C"
      [] ch = "p" -> "P" [] ch = "w" -> "W" [] ch = "x" -> "X"
      [] OTHER -> ch

toLowerCase(ch) ==
    CASE ch = "K" -> "k" [] ch = "R" -> "r" [] ch = "N" -> "n"
      [] ch = "B" -> "b" [] ch = "A" -> "a" [] ch = "C" -> "c"
      [] ch = "P" -> "p" [] ch = "W" -> "w" [] ch = "X" -> "x"
      [] OTHER -> ch

DigitChars == <<"1", "2", "3", "4", "5", "6", "7", "8", "9">>

isGapDigit(ch) == \E d \in 1..9 : DigitChars[d] = ch

parseInt(ch) == CHOOSE d \in 1..9 : DigitChars[d] = ch

RECURSIVE numberToChars(_)
numberToChars(n) ==
    IF n = 0 THEN <<"0">>
    ELSE IF n < 10 THEN <<DigitChars[n]>>
    ELSE numberToChars(n \div 10) \o
         (IF n % 10 = 0 THEN <<"0">> ELSE <<DigitChars[n % 10]>>)

isRedPiece(piece) == piece = toUpperCase(piece)

pieceColor(p) == IF isRedPiece(p) THEN "w" ELSE "b"

---------------------------------------------------------------------------
(* lib/fen.ts                                                              *)

\* String.prototype.split on a one-character separator: the pieces of s from
\* index start on, with the scan at index i
RECURSIVE splitFrom(_, _, _, _)
splitFrom(s, sep, i, start) ==
    IF i > Len(s) THEN <<SubSeq(s, start, Len(s))>>
    ELSE IF s[i] = sep
         THEN <<SubSeq(s, start, i - 1)>> \o splitFrom(s, sep, i + 1, i + 1)
    ELSE splitFrom(s, sep, i + 1, start)

split(s, sep) == splitFrom(s, sep, 1, 1)

RECURSIVE joinChars(_)
joinChars(s) == IF s = <<>> THEN "" ELSE s[1] \o joinChars(Tail(s))

RECURSIVE nulls(_)
nulls(n) == IF n = 0 THEN <<>> ELSE <<null>> \o nulls(n - 1)

RECURSIVE parseRank(_)
parseRank(rank) ==
    IF rank = <<>> THEN <<>>
    ELSE (IF isGapDigit(rank[1]) THEN nulls(parseInt(rank[1]))
          ELSE <<rank[1]>>) \o parseRank(Tail(rank))

RECURSIVE parseRanks(_)
parseRanks(ranks) ==
    IF ranks = <<>> THEN <<>>
    ELSE <<parseRank(ranks[1])>> \o parseRanks(Tail(ranks))

parseFen(fen) ==
    LET parts == split(fen, " ")
        ranks == split(parts[1], "/")
    IN [board |-> parseRanks(ranks),
        turn  |-> IF Len(parts) < 2 \/ parts[2] = <<>> THEN "w"
                  ELSE joinChars(parts[2])]

\* mutant: every empty square is written as its own gap of 1
RECURSIVE rankToFen_GapPerSquare(_, _)
rankToFen_GapPerSquare(row, empty) ==
    IF row = <<>> THEN <<>>
    ELSE IF row[1] = null THEN <<"1">> \o rankToFen_GapPerSquare(Tail(row), 0)
    ELSE <<row[1]>> \o rankToFen_GapPerSquare(Tail(row), 0)

\* mutant: the trailing gap of line 303 is not written
RECURSIVE rankToFen_NoTrailingGap(_, _)
rankToFen_NoTrailingGap(row, empty) ==
    IF row = <<>> THEN <<>>
    ELSE IF row[1] = null THEN rankToFen_NoTrailingGap(Tail(row), empty + 1)
    ELSE (IF empty > 0 THEN numberToChars(empty) ELSE <<>>) \o <<row[1]>>
         \o rankToFen_NoTrailingGap(Tail(row), 0)

\* lines 293-303: one row of the board as text, with empty gaps counted so far
RECURSIVE rankToFen(_, _)
rankToFen(row, empty) ==
    IF row = <<>> THEN (IF empty > 0 THEN numberToChars(empty) ELSE <<>>)
    ELSE IF row[1] = null THEN rankToFen(Tail(row), empty + 1)
    ELSE (IF empty > 0 THEN numberToChars(empty) ELSE <<>>) \o <<row[1]>>
         \o rankToFen(Tail(row), 0)

\* ranks.join('/') over the encoded rows
RECURSIVE joinRanks(_)
joinRanks(rows) ==
    IF rows = <<>> THEN <<>>
    ELSE IF Len(rows) = 1 THEN rankToFen(rows[1], 0)
    ELSE rankToFen(rows[1], 0) \o <<"/">> \o joinRanks(Tail(rows))

toFenOf(board, turn) ==
    joinRanks(board)
        \o <<" ", turn, " ", "-", " ", "-", " ", "0", " ", "1">>

toFen(pos) == toFenOf(pos.board, pos.turn)

\* mutant: the rank digit is the row itself
squareToUci_RowAsRank(sq) == <<FILES[sq.col + 1]>> \o numberToChars(sq.row)

squareToUci(sq) == <<FILES[sq.col + 1]>> \o numberToChars(9 - sq.row)

indexOfFile(ch) ==
    IF \E i \in 1..9 : FILES[i] = ch
    THEN (CHOOSE i \in 1..9 : FILES[i] = ch) - 1
    ELSE -1

parseIntDigit(ch) ==
    IF ch = "0" THEN 0 ELSE parseInt(ch)

uciToSquare(uci) == [col |-> indexOfFile(uci[1]), row |-> 9 - parseIntDigit(uci[2])]

uciMove(from, to) == squareToUci(from) \o squareToUci(to)

parseUciMove(move) ==
    [from |-> uciToSquare(SubSeq(move, 1, 2)), to |-> uciToSquare(SubSeq(move, 3, 4))]

\* mutant: the side to move is not switched
applyMove_KeepsTurn(pos, from, to) ==
    LET newBoard ==
            [pos.board EXCEPT ![to.row + 1][to.col + 1] = pos.board[from.row + 1][from.col + 1],
                              ![from.row + 1][from.col + 1] = null]
    IN [board |-> newBoard, turn |-> pos.turn]

applyMove(pos, from, to) ==
    LET newBoard ==
            [pos.board EXCEPT ![to.row + 1][to.col + 1] = pos.board[from.row + 1][from.col + 1],
                              ![from.row + 1][from.col + 1] = null]
    IN [board |-> newBoard, turn |-> IF pos.turn = "w" THEN "b" ELSE "w"]

---------------------------------------------------------------------------
(* lib/xiangqi.ts                                                          *)

inBounds(r, c) == r >= 0 /\ r < 10 /\ c >= 0 /\ c < 9

\* mutant: the palace has no row limits
inPalace_AnyRow(r, c, side) == c >= 3 /\ c <= 5

inPalace(r, c, side) ==
    IF c < 3 \/ c > 5 THEN FALSE
    ELSE IF side = "w" THEN r >= 7 /\ r <= 9
    ELSE r >= 0 /\ r <= 2

\* mutant: every row counts as the own half
ownHalf_WholeBoard(r, side) == TRUE

ownHalf(r, side) == IF side = "w" THEN r >= 5 ELSE r <= 4

canMoveTo(board, side, r, c) ==
    IF ~inBounds(r, c) THEN FALSE
    ELSE LET target == board[r + 1][c + 1]
         IN IF target # null /\ pieceColor(target) = side THEN FALSE ELSE TRUE

Orthogonal == {<<0, 1>>, <<0, -1>>, <<1, 0>>, <<-1, 0>>}
Diagonal == {<<-1, -1>>, <<-1, 1>>, <<1, -1>>, <<1, 1>>}
\* mutant: the leg is taken one step along the short axis
knightMoves_LegOnShortAxis ==
    {<<-2, -1, 0, -1>>, <<-2, 1, 0, 1>>, <<2, -1, 0, -1>>, <<2, 1, 0, 1>>,
     <<-1, -2, -1, 0>>, <<-1, 2, -1, 0>>, <<1, -2, 1, 0>>, <<1, 2, 1, 0>>}

knightMoves == {<<-2, -1, -1, 0>>, <<-2, 1, -1, 0>>, <<2, -1, 1, 0>>, <<2, 1, 1, 0>>,
                <<-1, -2, 0, -1>>, <<-1, 2, 0, 1>>, <<1, -2, 0, -1>>, <<1, 2, 0, 1>>}
elephantMoves == {<<-2, -2, -1, -1>>, <<-2, 2, -1, 1>>, <<2, -2, 1, -1>>, <<2, 2, 1, 1>>}

\* the chariot's inner loop (lines 56-66), from step i on
RECURSIVE chariotRay(_, _, _, _, _, _, _)
chariotRay(board, row, col, side, dr, dc, i) ==
    LET nr == row + dr * i
        nc == col + dc * i
    IN IF i >= 10 \/ ~inBounds(nr, nc) THEN {}
       ELSE IF board[nr + 1][nc + 1] = null
            THEN {Sq(nr, nc)} \cup chariotRay(board, row, col, side, dr, dc, i + 1)
       ELSE IF pieceColor(board[nr + 1][nc + 1]) # side THEN {Sq(nr, nc)}
       ELSE {}

\* mutant: the cannon captures the first piece it meets, like a chariot
RECURSIVE cannonRay_NoScreen(_, _, _, _, _, _, _, _)
cannonRay_NoScreen(board, row, col, side, dr, dc, i, jumped) ==
    LET nr == row + dr * i
        nc == col + dc * i
    IN IF i >= 10 \/ ~inBounds(nr, nc) THEN {}
       ELSE IF board[nr + 1][nc + 1] = null
            THEN {Sq(nr, nc)}
                     \cup cannonRay_NoScreen(board, row, col, side, dr, dc, i + 1, jumped)
       ELSE IF pieceColor(board[nr + 1][nc + 1]) # side THEN {Sq(nr, nc)}
       ELSE {}

\* the cannon's inner loop (lines 71-87), from step i on
RECURSIVE cannonRay(_, _, _, _, _, _, _, _)
cannonRay(board, row, col, side, dr, dc, i, jumped) ==
    LET nr == row + dr * i
        nc == col + dc * i
    IN IF i >= 10 \/ ~inBounds(nr, nc) THEN {}
       ELSE IF ~jumped
            THEN IF board[nr + 1][nc + 1] = null
                 THEN {Sq(nr, nc)}
                          \cup cannonRay(board, row, col, side, dr, dc, i + 1, FALSE)
                 ELSE cannonRay(board, row, col, side, dr, dc, i + 1, TRUE)
       ELSE IF board[nr + 1][nc + 1] # null
            THEN IF pieceColor(board[nr + 1][nc + 1]) # side THEN {Sq(nr, nc)} ELSE {}
       ELSE cannonRay(board, row, col, side, dr, dc, i + 1, TRUE)

\* mutant: the scan looks at the adjacent square only
flyingScan_OneStep(board, col, opponentKing, dir, r) ==
    IF ~(r >= 0 /\ r < 10) THEN {}
    ELSE IF board[r + 1][col + 1] = opponentKing THEN {Sq(r, col)}
    ELSE {}

\* the flying-general scan (lines 136-141), from row r on
RECURSIVE flyingScan(_, _, _, _, _)
flyingScan(board, col, opponentKing, dir, r) ==
    IF ~(r >= 0 /\ r < 10) THEN {}
    ELSE IF board[r + 1][col + 1] # null
         THEN IF board[r + 1][col + 1] = opponentKing THEN {Sq(r, col)} ELSE {}
    ELSE flyingScan(board, col, opponentKing, dir, r + dir)

\* mutant: the sideways steps do not depend on the half
soldierMoves_SidewaysAlways(board, row, col, side, fwd) ==
    (IF canMoveTo(board, side, row + fwd, col) THEN {Sq(row + fwd, col)} ELSE {})
    \cup (IF canMoveTo(board, side, row, col - 1) THEN {Sq(row, col - 1)} ELSE {})
    \cup (IF canMoveTo(board, side, row, col + 1) THEN {Sq(row, col + 1)} ELSE {})

soldierMoves(board, row, col, side, fwd) ==
    (IF canMoveTo(board, side, row + fwd, col) THEN {Sq(row + fwd, col)} ELSE {})
    \cup
    (IF ~ownHalf(row, side)
     THEN (IF canMoveTo(board, side, row, col - 1) THEN {Sq(row, col - 1)} ELSE {})
          \cup
          (IF canMoveTo(board, side, row, col + 1) THEN {Sq(row, col + 1)} ELSE {})
     ELSE {})

generatePieceMoves(board, row, col, piece) ==
    LET side == pieceColor(piece)
        type == toLowerCase(piece)
    IN IF type = "r" THEN
           UNION {chariotRay(board, row, col, side, d[1], d[2], 1) : d \in Orthogonal}
       ELSE IF type = "c" THEN
           UNION {cannonRay(board, row, col, side, d[1], d[2], 1, FALSE) : d \in Orthogonal}
       ELSE IF type = "n" THEN
           {Sq(row + m[1], col + m[2]) :
               m \in {k \in knightMoves :
                        /\ inBounds(row + k[3], col + k[4])
                        /\ board[row + k[3] + 1][col + k[4] + 1] = null
                        /\ canMoveTo(board, side, row + k[1], col + k[2])}}
       ELSE IF type = "b" THEN
           {Sq(row + m[1], col + m[2]) :
               m \in {k \in elephantMoves :
                        /\ inBounds(row + k[3], col + k[4])
                        /\ board[row + k[3] + 1][col + k[4] + 1] = null
                        /\ inBounds(row + k[1], col + k[2])
                        /\ ownHalf(row + k[1], side)
                        /\ canMoveTo(board, side, row + k[1], col + k[2])}}
       ELSE IF type = "a" THEN
           {Sq(row + d[1], col + d[2]) :
               d \in {k \in Diagonal :
                        /\ inPalace(row + k[1], col + k[2], side)
                        /\ canMoveTo(board, side, row + k[1], col + k[2])}}
       ELSE IF type = "k" THEN
           {Sq(row + d[1], col + d[2]) :
               d \in {k \in Orthogonal :
                        /\ inPalace(row + k[1], col + k[2], side)
                        /\ canMoveTo(board, side, row + k[1], col + k[2])}}
           \cup
           UNION {flyingScan(board, col, IF side = "w" THEN "k" ELSE "K", dir, row + dir) :
                      dir \in {-1, 1}}
       ELSE IF type = "p" THEN
           IF side = "w" THEN soldierMoves(board, row, col, side, -1)
           ELSE soldierMoves(board, row, col, side, 1)
       ELSE {}

Squares == {Sq(r, c) : r \in 0..9, c \in 0..8}

\* findKing's null result (no square holds the general)
noSquare == [row |-> -1, col |-> -1]

\* the first square in row-major order holding the side's general, or noSquare
findKing(board, side) ==
    LET king == IF side = "w" THEN "K" ELSE "k"
        at == {sq \in Squares : board[sq.row + 1][sq.col + 1] = king}
    IN IF at = {} THEN noSquare
       ELSE CHOOSE sq \in at :
                \A o \in at : sq.row < o.row \/ (sq.row = o.row /\ sq.col <= o.col)

isUnderAttack(board, sq, byWhom) ==
    \E from \in Squares :
        LET p == board[from.row + 1][from.col + 1]
        IN /\ p # null
           /\ pieceColor(p) = byWhom
           /\ sq \in generatePieceMoves(board, from.row, from.col, p)

opponentOf(turn) == IF turn = "w" THEN "b" ELSE "w"

isInCheck(pos) ==
    LET kingSq == findKing(pos.board, pos.turn)
    IN IF kingSq = noSquare THEN FALSE
       ELSE isUnderAttack(pos.board, kingSq, opponentOf(pos.turn))

\* lines 201-203: the copied board with the piece moved
boardAfter(board, from, to) ==
    [board EXCEPT ![to.row + 1][to.col + 1] = board[from.row + 1][from.col + 1],
                  ![from.row + 1][from.col + 1] = null]

\* mutant: the attack test of line 207 is dropped
keepsKingSafe_NoAttackTest(board, turn, from, to) ==
    findKing(boardAfter(board, from, to), turn) # noSquare

\* lines 204-209: whether the move is kept
keepsKingSafe(board, turn, from, to) ==
    LET newBoard == boardAfter(board, from, to)
        kingSq == findKing(newBoard, turn)
    IN IF kingSq = noSquare THEN FALSE
       ELSE ~isUnderAttack(newBoard, kingSq, opponentOf(turn))

\* lines 195-211: from ranges over the squares holding a piece of the side to
\* move, to over that piece's targets, and the move is kept if the general of
\* the side to move is then on the board and not attacked
\* mutant: the pieces of both sides are moved
generateLegalMoves_AnySide(pos) ==
    {m \in [from : {sq \in Squares : pos.board[sq.row + 1][sq.col + 1] # null},
            to : Squares] :
        /\ m.to \in generatePieceMoves(pos.board, m.from.row, m.from.col,
                                        pos.board[m.from.row + 1][m.from.col + 1])
        /\ keepsKingSafe(pos.board, pos.turn, m.from, m.to)}

generateLegalMoves(pos) ==
    {m \in [from : {sq \in Squares :
                        /\ pos.board[sq.row + 1][sq.col + 1] # null
                        /\ pieceColor(pos.board[sq.row + 1][sq.col + 1]) = pos.turn},
            to : Squares] :
        /\ m.to \in generatePieceMoves(pos.board, m.from.row, m.from.col,
                                        pos.board[m.from.row + 1][m.from.col + 1])
        /\ keepsKingSafe(pos.board, pos.turn, m.from, m.to)}

\* list.length === 0
isEmpty(list) == ~\E x \in list : TRUE

\* lines 219-222: legal.some(...) over a list of moves
someMove(legal, from, to) == [from |-> from, to |-> to] \in legal

\* mutant: any move of a piece of the side to move is accepted
isLegalMove_AnyOwnPiece(pos, from, to) ==
    /\ inBounds(from.row, from.col) /\ inBounds(to.row, to.col)
    /\ pos.board[from.row + 1][from.col + 1] # null
    /\ pieceColor(pos.board[from.row + 1][from.col + 1]) = pos.turn

isLegalMove(pos, from, to) == someMove(generateLegalMoves(pos), from, to)

isCheckmate(pos) ==
    IF ~isInCheck(pos) THEN FALSE ELSE isEmpty(generateLegalMoves(pos))

\* mutant: the in-check test of line 231 is dropped
isStalemate_NoCheckTest(pos) == isEmpty(generateLegalMoves(pos))

isStalemate(pos) ==
    IF isInCheck(pos) THEN FALSE ELSE isEmpty(generateLegalMoves(pos))

getLegalMovesUci(pos) == {uciMove(m.from, m.to) : m \in generateLegalMoves(pos)}

getLegalTargets(pos, from) == {m.to : m \in {x \in generateLegalMoves(pos) : x.from = from}}

---------------------------------------------------------------------------
(* hooks/useGame.ts                                                        *)

STARTING_FEN ==
    <<"r", "n", "b", "a", "k", "a", "b", "n", "r", "/", "9", "/", "1", "c",
      "5", "c", "1", "/", "p", "1", "p", "1", "p", "1", "p", "1", "p", "/",
      "9", "/", "9", "/", "P", "1", "P", "1", "P", "1", "P", "1", "P", "/",
      "1", "C", "5", "C", "1", "/", "9", "/", "R", "N", "B", "A", "K", "A",
      "B", "N", "R", " ", "w", " ", "-", " ", "-", " ", "0", " ", "1">>

\* gameOver labels: the three texts of lines 224 and 226
BlackWins == "BlackWins"
RedWins == "RedWins"
Draw == "Draw"

\* an optional string argument that is absent (or empty: both are falsy)
absent == <<>>

\* ---- inputs of the model ------------------------------------------------
\* a bound on the length of the history tryMove may build
MaxHistory == 3

\* board-state texts handed to reset / loadMoves: the editor can produce them
FenRedToMove ==
    <<"5", "R", "3", "/", "3", "k", "5", "/", "2", "P", "2", "a", "3", "/",
      "9", "/", "9", "/", "9", "/", "9", "/", "9", "/", "9", "/", "4", "K",
      "4", " ", "w", " ", "-", " ", "-", " ", "0", " ", "1">>

FenBlackToMove ==
    <<"3", "k", "r", "4", "/", "4", "a", "4", "/", "9", "/", "9", "/", "9",
      "/", "5", "r", "3", "/", "9", "/", "9", "/", "9", "/", "4", "K", "4",
      " ", "b", " ", "-", " ", "-", " ", "0", " ", "1">>

\* red to move with the black general in front of a red soldier
FenGeneralAttacked ==
    <<"3", "k", "5", "/", "3", "P", "5", "/", "9", "/", "9", "/", "9", "/",
      "9", "/", "9", "/", "9", "/", "9", "/", "4", "K", "4",
      " ", "w", " ", "-", " ", "-", " ", "0", " ", "1">>

ScenarioFens == {FenRedToMove, FenBlackToMove, FenGeneralAttacked}

\* the squares the user's moves are drawn from: the far palace
InputSquares == {Sq(r, c) : r \in 0..2, c \in 3..5}

\* the indices goToMove is called with
IndexInputs == -2..MaxHistory

Uci(s1, s2, s3, s4) == <<s1, s2, s3, s4>>

\* the move lists loadMoves is called with
MoveLists ==
    { <<Uci("f", "9", "f", "7"), Uci("d", "8", "d", "9"), Uci("f", "7", "d", "7")>>,
      <<Uci("e", "8", "f", "7")>>,
      <<Uci("f", "9", "f", "7"), Uci("f", "7", "e", "7")>>,
      <<Uci("f", "9", "e", "9")>> }

\* ---- the hook -----------------------------------------------------------
lastIs(op, ret) == lastCall = [op |-> op, ret |-> ret]

snapshot ==
    [baseFen |-> baseFen, position |-> position, moveHistory |-> moveHistory,
     currentIndex |-> currentIndex, gameOver |-> gameOver]

noSnapshot ==
    [baseFen |-> <<>>, position |-> [board |-> <<>>, turn |-> "w"],
     moveHistory |-> <<>>, currentIndex |-> -1, gameOver |-> null]

\* mutant: a stalemate leaves no label
gameOverAfterMove_NoStalemate(newPos, old) ==
    IF isCheckmate(newPos) THEN (IF newPos.turn = "w" THEN BlackWins ELSE RedWins)
    ELSE old

\* lines 223-227: the label a successful move leaves in gameOver
gameOverAfterMove(newPos, old) ==
    IF isCheckmate(newPos) THEN (IF newPos.turn = "w" THEN BlackWins ELSE RedWins)
    ELSE IF isStalemate(newPos) THEN Draw
    ELSE old

\* mutant: the forward history is kept
slice_Whole(history, end) == history

\* Array.prototype.slice(0, end), line 218
slice(history, end) == SubSeq(history, 1, end)

\* generateLegalMoves reads every board[r][c] with r < 10 and c < 9 (xiangqi.ts
\* 195-198); on a board with fewer rows or a shorter row the value is
\* undefined and pieceColor throws a TypeError, which leaves the hook's state
\* as it was
cellMissing(board) ==
    \E sq \in Squares :
        \/ sq.row + 1 \notin DOMAIN board
        \/ sq.col + 1 \notin DOMAIN board[sq.row + 1]

\* mutant: a finished game does not stop a move
tryMove_NoGameOverGuard(from, to) ==
    IF cellMissing(position.board) THEN
        /\ lastCall' = [op |-> "tryMove", ret |-> "throws"]
        /\ UNCHANGED gameVars
    ELSE IF ~isLegalMove(position, from, to) THEN
        /\ lastCall' = [op |-> "tryMove", ret |-> "false"]
        /\ UNCHANGED gameVars
    ELSE
        LET newPos == applyMove(position, from, to)
            newHistory == Append(slice(moveHistory, currentIndex + 1),
                                 [uci |-> uciMove(from, to), fen |-> toFen(newPos)])
        IN /\ position' = newPos
           /\ moveHistory' = newHistory
           /\ currentIndex' = Len(newHistory) - 1
           /\ gameOver' = gameOverAfterMove(newPos, gameOver)
           /\ lastCall' = [op |-> "tryMove", ret |-> "true"]
           /\ UNCHANGED baseFen

tryMove(from, to) ==
    IF gameOver # null THEN
        /\ lastCall' = [op |-> "tryMove", ret |-> "false"]
        /\ UNCHANGED gameVars
    ELSE IF cellMissing(position.board) THEN
        /\ lastCall' = [op |-> "tryMove", ret |-> "throws"]
        /\ UNCHANGED gameVars
    ELSE IF ~isLegalMove(position, from, to) THEN
        /\ lastCall' = [op |-> "tryMove", ret |-> "false"]
        /\ UNCHANGED gameVars
    ELSE
        LET newPos == applyMove(position, from, to)
            move == uciMove(from, to)
            fen == toFen(newPos)
            newHistory == Append(slice(moveHistory, currentIndex + 1),
                                 [uci |-> move, fen |-> fen])
        IN /\ position' = newPos
           /\ moveHistory' = newHistory
           /\ currentIndex' = Len(newHistory) - 1
           /\ gameOver' = gameOverAfterMove(newPos, gameOver)
           /\ lastCall' = [op |-> "tryMove", ret |-> "true"]
           /\ UNCHANGED baseFen

\* mutant: the index is set but the position is not recomputed
goToMove_KeepsPosition(index) ==
    IF index < -1 \/ index >= Len(moveHistory) THEN
        /\ lastCall' = [op |-> "goToMove", ret |-> "undefined"]
        /\ UNCHANGED gameVars
    ELSE
        /\ currentIndex' = index
        /\ lastCall' = [op |-> "goToMove", ret |-> "undefined"]
        /\ UNCHANGED <<baseFen, position, moveHistory, gameOver>>

goToMove(index) ==
    IF index < -1 \/ index >= Len(moveHistory) THEN
        /\ lastCall' = [op |-> "goToMove", ret |-> "undefined"]
        /\ UNCHANGED gameVars
    ELSE
        /\ lastCall' = [op |-> "goToMove", ret |-> "undefined"]
        /\ currentIndex' = index
        /\ position' = IF index = -1 THEN parseFen(baseFen)
                       ELSE parseFen(moveHistory[index + 1].fen)
        /\ UNCHANGED <<baseFen, moveHistory, gameOver>>

reset(fen) ==
    LET f == IF fen # absent THEN fen ELSE STARTING_FEN
    IN /\ baseFen' = f
       /\ position' = parseFen(f)
       /\ moveHistory' = <<>>
       /\ currentIndex' = -1
       /\ gameOver' = null
       /\ lastCall' = [op |-> "reset", ret |-> "undefined"]

\* the loop of lines 273-277: the position and the history after the moves
RECURSIVE replay(_, _, _)
replay(pos, history, moves) ==
    IF moves = <<>> THEN [pos |-> pos, history |-> history]
    ELSE LET m == parseUciMove(moves[1])
             next == applyMove(pos, m.from, m.to)
         IN replay(next, Append(history, [uci |-> moves[1], fen |-> toFen(next)]),
                   Tail(moves))

loadMoves(moves, startFen) ==
    LET fen == IF startFen # absent THEN startFen ELSE baseFen
        done == replay(parseFen(fen), <<>>, moves)
    IN /\ baseFen' = fen
       /\ position' = done.pos
       /\ moveHistory' = done.history
       /\ currentIndex' = Len(done.history) - 1
       /\ gameOver' = null
       /\ lastCall' = [op |-> "loadMoves", ret |-> "undefined"]

---------------------------------------------------------------------------
(* components/BoardEditor/BoardEditor.tsx, lines 29-75.  selectedPiece and  *)
(* fenInput are set by one-line handlers just before they are read; they    *)
(* are the inputs of handleCellClick and handleLoadFen here.                *)

\* ---- inputs of the model ------------------------------------------------
EditSquares == {Sq(1, 0), Sq(1, 1), Sq(1, 2), Sq(1, 8)}
EditPieces == {"K", "p", "erase"}

FenThreeRanks ==
    <<"4", "k", "4", "/", "9", "/", "4", "K", "4", " ", "w">>

FenBadSide ==
    <<"4", "k", "4", "/", "9", "/", "9", "/", "9", "/", "9", "/", "9", "/",
      "9", "/", "9", "/", "9", "/", "4", "K", "4", " ", "x">>

FenWideRank ==
    <<"4", "k", "4", "/", "5", "5", "/", "9", "/", "9", "/", "9", "/", "9",
      "/", "9", "/", "9", "/", "9", "/", "4", "K", "4", " ", "b">>

FenNoSide ==
    <<"4", "k", "4", "/", "9", "/", "9", "/", "9", "/", "9", "/", "9", "/",
      "9", "/", "9", "/", "9", "/", "4", "K", "4">>

\* the black general on a back rank of ten cells, black to move
FenLongBackRank ==
    <<"3", "k", "6", "/", "9", "/", "9", "/", "9", "/", "9", "/", "9", "/",
      "9", "/", "9", "/", "9", "/", "4", "K", "4", " ", "b">>

FenInputs ==
    {FenRedToMove, FenThreeRanks, FenBadSide, FenWideRank, FenNoSide, <<>>, <<" ">>,
     FenLongBackRank}

\* ---- the component ------------------------------------------------------
RECURSIVE trimStart(_)
trimStart(s) == IF s # <<>> /\ s[1] = " " THEN trimStart(Tail(s)) ELSE s

RECURSIVE trimEnd(_)
trimEnd(s) ==
    IF s # <<>> /\ s[Len(s)] = " " THEN trimEnd(SubSeq(s, 1, Len(s) - 1)) ELSE s

trim(s) == trimEnd(trimStart(s))

RECURSIVE emptyRow(_)
emptyRow(n) == IF n = 0 THEN <<>> ELSE <<null>> \o emptyRow(n - 1)

RECURSIVE emptyBoard(_)
emptyBoard(n) == IF n = 0 THEN <<>> ELSE <<emptyRow(9)>> \o emptyBoard(n - 1)

\* line 75: currentFen, recomputed on every render
currentFenOf(board, turn) == toFen([board |-> board, turn |-> turn])

handleCellClick(selectedPiece, row, col) ==
    /\ row + 1 \in DOMAIN edBoard
    /\ col + 1 \in DOMAIN edBoard[row + 1]
    /\ edBoard' = [edBoard EXCEPT ![row + 1][col + 1] =
                       IF selectedPiece = "erase" THEN null ELSE selectedPiece]
    /\ edFen' = currentFenOf(edBoard', edTurn)
    /\ UNCHANGED edTurn

handleClear ==
    /\ edBoard' = emptyBoard(10)
    /\ edFen' = currentFenOf(edBoard', edTurn)
    /\ UNCHANGED edTurn

handleReset ==
    /\ edBoard' = parseFen(STARTING_FEN).board
    /\ edTurn' = "w"
    /\ edFen' = currentFenOf(edBoard', edTurn')

setTurn(side) ==
    /\ edTurn' = side
    /\ edFen' = currentFenOf(edBoard, edTurn')
    /\ UNCHANGED edBoard

handleLoadFen(fenInput) ==
    LET trimmed == trim(fenInput)
    IN IF trimmed = <<>> THEN UNCHANGED edVars
       ELSE LET pos == parseFen(trimmed)
            IN /\ edBoard' = pos.board
               /\ edTurn' = pos.turn
               /\ edFen' = currentFenOf(edBoard', edTurn')

---------------------------------------------------------------------------
(* hooks/useEngine.ts, lines 19-58: the analysis client.  A request is the  *)
(* message {fen, depth}; the model gives it the sequence number it was sent *)
(* with (req), and an event carries the number of the request whose search  *)
(* produced it.  The client sees neither number.                            *)

\* ---- inputs and bounds of the model -------------------------------------
\* requests the client may send
MaxRequests == 2
\* progress events one search may emit
MaxProgress == 2

\* the score the k-th progress event of a search carries
scoreAtDepth(k) == IF k % 2 = 1 THEN -30 ELSE 50

\* the positions analyse is called with
AnalysedFens == {FenRedToMove}

\* info = null / result = null (lines 22-23)
noEvent == [type |-> "none", req |-> 0]

\* ---- the client ---------------------------------------------------------
\* line 30
onopen ==
    /\ wsState' = "open"
    /\ connected' = TRUE

\* lines 31-34
onclose ==
    /\ connected' = FALSE
    /\ analysing' = FALSE

\* lines 35-43
onmessage(data) ==
    IF data.type = "info" THEN
        /\ info' = data
        /\ UNCHANGED <<result, analysing>>
    ELSE IF data.type = "bestmove" THEN
        /\ result' = data
        /\ analysing' = FALSE
        /\ UNCHANGED info
    ELSE UNCHANGED <<info, result, analysing>>

\* lines 49-55
analyse(fen) ==
    IF wsState # "open" THEN
        UNCHANGED <<info, result, analysing, toServer, nextReq, analysed>>
    ELSE
        /\ info' = noEvent
        /\ result' = noEvent
        /\ analysing' = TRUE
        /\ toServer' = Append(toServer, [fen |-> fen, req |-> nextReq])
        /\ nextReq' = nextReq + 1
        /\ analysed' = Append(analysed, fen)

---------------------------------------------------------------------------
(* The analysis dispatcher of the connection (spec section 4.6 and 7): the  *)
(* server side of /ws/analysis.  server.running is the set of requests      *)
(* whose search the engine session runs, server.cancelled those of them     *)
(* that were cancelled, server.waiting the request to start when the        *)
(* cancelled search has ended (0 = none), server.emitted the number of      *)
(* progress events each search has produced.                                *)

serverIdle ==
    [running |-> {}, cancelled |-> {}, waiting |-> 0,
     emitted |-> [r \in 1..MaxRequests |-> 0]]

\* submit while a search is in flight starts the new search at once
submit_NoCancel(srv, req) ==
    [srv EXCEPT !.running = srv.running \cup {req}]

\* submit(Position, depth): cancel the search in flight and start the new
\* one only when the cancelled one has ended
submit(srv, req) ==
    IF srv.running = {} THEN [srv EXCEPT !.running = {req}]
    ELSE [srv EXCEPT !.cancelled = srv.running, !.waiting = req]

\* events of a cancelled search are discarded, the others relayed
relay(srv, event) ==
    IF event.req \in srv.cancelled THEN toClient ELSE Append(toClient, event)

\* the search of request r has ended: the waiting request starts when no
\* search is left
searchEnded(srv, r) ==
    LET left == srv.running \ {r}
    IN IF left = {} /\ srv.waiting # 0
       THEN [srv EXCEPT !.running = {srv.waiting}, !.cancelled = {}, !.waiting = 0]
       ELSE [srv EXCEPT !.running = left, !.cancelled = srv.cancelled \ {r}]

---------------------------------------------------------------------------
(* Calls of the library functions of lib/xiangqi.ts, lib/fen.ts and         *)
(* lib/notation.ts on their own: lib holds the arguments of one call and,   *)
(* once the call is done, its result.                                       *)

\* ---- inputs and bounds of the model -------------------------------------
\* squares filled beyond the cannon along one direction
MaxLine == 4

place(board, sq, piece) == [board EXCEPT ![sq.row + 1][sq.col + 1] = piece]

\* uciMove(from, to) for every pair of squares
UciCalls ==
    {[fn |-> "uciMove", from |-> f, to |-> t, done |-> FALSE] :
        f \in Squares, t \in Squares}

\* the two generals alone, each in its palace, on one file
FacingGenerals ==
    {[board |-> place(place(emptyBoard(10), Sq(rr, c), "K"), Sq(rb, c), "k"),
      turn |-> t] : c \in 3..5, rr \in 7..9, rb \in 0..2, t \in Side}

\* the starting board with either side to move
StartingPositions ==
    {[board |-> parseFen(STARTING_FEN).board, turn |-> t] : t \in Side}

\* the two generals in their palaces and one more piece on a central file
\* halfway between them
ScreenedGenerals ==
    {[board |-> place(place(place(emptyBoard(10), Sq(rr, cr), "K"), Sq(rb, cb), "k"),
                      Sq(4, c), piece),
      turn |-> t] :
        rr \in 8..9, cr \in 3..5, rb \in 0..1, cb \in 3..5, c \in 3..5,
        piece \in {"R", "n", "P", "c"}, t \in Side}

LegalMovesCalls ==
    {[fn |-> "getLegalMovesUci", pos |-> p, done |-> FALSE] :
        p \in FacingGenerals \cup StartingPositions \cup ScreenedGenerals}

\* the square the cannon stands on
CannonSquare == Sq(4, 4)

\* the board with line[i] on the i-th square from sq in direction d
RECURSIVE lineBoard(_, _, _, _)
lineBoard(sq, d, line, i) ==
    IF i > Len(line) THEN emptyBoard(10)
    ELSE LET r == sq.row + d[1] * i
             c == sq.col + d[2] * i
             rest == lineBoard(sq, d, line, i + 1)
         IN IF inBounds(r, c) THEN place(rest, Sq(r, c), line[i]) ELSE rest

\* a cannon of either side with every filling of one line beyond it
CannonCalls ==
    {[fn |-> "generatePieceMoves",
      board |-> place(lineBoard(CannonSquare, d, line, 1), CannonSquare, cannon),
      row |-> CannonSquare.row, col |-> CannonSquare.col, done |-> FALSE] :
        cannon \in {"C", "c"}, d \in Orthogonal,
        line \in [1..MaxLine -> {null, "P", "p"}]}

\* generatePieceMoves for a general, advisor, elephant, horse or soldier of
\* either side on any square, alone or with one more piece at most two rows
\* and two columns away
NearPieces == {"P", "p", "K", "k"}

PieceCalls(call) ==
    LET made(board, sq) ==
            call = [fn |-> "generatePieceMoves", board |-> board,
                    row |-> sq.row, col |-> sq.col, done |-> FALSE]
        alone(piece, sq) == place(emptyBoard(10), sq, piece)
        near(sq) == {t \in Squares : /\ t # sq
                                     /\ t.row - sq.row \in -2..2
                                     /\ t.col - sq.col \in -2..2}
    IN \E piece \in {"K", "k", "A", "a", "B", "b", "N", "n", "P", "p"}, sq \in Squares :
           \/ made(alone(piece, sq), sq)
           \/ \E t \in near(sq), other \in NearPieces :
                  made(place(alone(piece, sq), t, other), sq)

---------------------------------------------------------------------------
(* lib/notation.ts.  TLC reads no character outside ASCII in a string, so  *)
(* each Chinese character is written as its code point: "U+8F66" stands    *)
(* for the one-character string whose character has that code point.  The  *)
(* result of uciToChineseNotation is the sequence of its characters.       *)

PIECE_NAMES(piece) ==
    CASE piece = "R" -> "U+8F66" [] piece = "N" -> "U+9A6C"
      [] piece = "B" -> "U+76F8" [] piece = "A" -> "U+4ED5"
      [] piece = "K" -> "U+5E05" [] piece = "C" -> "U+70AE"
      [] piece = "P" -> "U+5175"
      [] piece = "r" -> "U+8F66" [] piece = "n" -> "U+9A6C"
      [] piece = "b" -> "U+8C61" [] piece = "a" -> "U+58EB"
      [] piece = "k" -> "U+5C06" [] piece = "c" -> "U+70AE"
      [] piece = "p" -> "U+5352"
      [] OTHER -> "?"

\* JavaScript index i is index i + 1 here
RED_DIGITS ==
    <<"", "U+4E00", "U+4E8C", "U+4E09", "U+56DB", "U+4E94",
      "U+516D", "U+4E03", "U+516B", "U+4E5D">>

BLACK_DIGITS == <<"", "1", "2", "3", "4", "5", "6", "7", "8", "9">>

\* mutant: files are numbered from the left for both sides
colDisplay_FromLeft(isRed, col) == col + 1

\* lines 32, 41, 50: the number of a file as the side of the piece counts it
colDisplay(isRed, col) == IF isRed THEN 9 - col ELSE col + 1

uciToChineseNotation(move, fen) ==
    LET pos == parseFen(fen)
        \* charCodeAt of the letters a to i
        charCodeAt(ch) == 97 + indexOfFile(ch)
        fromCol == charCodeAt(move[1]) - 97
        fromRank == parseIntDigit(move[2])
        toCol == charCodeAt(move[3]) - 97
        toRank == parseIntDigit(move[4])
        fromRow == 9 - fromRank
        toRow == 9 - toRank
        piece == pos.board[fromRow + 1][fromCol + 1]
        isRed == isRedPiece(piece)
        digits == IF isRed THEN RED_DIGITS ELSE BLACK_DIGITS
        pieceName == PIECE_NAMES(piece)
        pType == toLowerCase(piece)
        abs(n) == IF n < 0 THEN -n ELSE n
        forward == IF isRed THEN toRow < fromRow ELSE toRow > fromRow
        action == IF fromRow = toRow THEN "U+5E73"
                  ELSE IF forward THEN "U+8FDB" ELSE "U+9000"
        target == IF fromRow = toRow THEN digits[colDisplay(isRed, toCol) + 1]
                  ELSE IF pType \in {"r", "c", "p", "k"}
                       THEN digits[abs(toRow - fromRow) + 1]
                       ELSE digits[colDisplay(isRed, toCol) + 1]
    IN IF piece = null THEN move
       ELSE <<pieceName, digits[colDisplay(isRed, fromCol) + 1], action, target>>

\* uciToChineseNotation for every move of the shape of its piece, the piece
\* of either side standing alone on any square; for every such move of either
\* side on the starting board; and for a move from each square of an empty rank
NotationCalls ==
    LET call(board, f, t) ==
            [fn |-> "uciToChineseNotation", uciMove |-> uciMove(f, t),
             fen |-> toFenOf(board, "w"), board |-> board, from |-> f, to |-> t,
             done |-> FALSE]
        alone(piece, f) == place(emptyBoard(10), f, piece)
        start == parseFen(STARTING_FEN).board
    IN UNION {{call(alone(piece, f), f, t) :
                  t \in generatePieceMoves(alone(piece, f), f.row, f.col, piece)} :
                      piece \in PieceChar, f \in Squares}
       \cup UNION {{call(start, f, t) :
                  t \in IF start[f.row + 1][f.col + 1] = null THEN {}
                        ELSE generatePieceMoves(start, f.row, f.col,
                                                start[f.row + 1][f.col + 1])} :
                      f \in Squares}
       \cup {call(start, Sq(4, c), Sq(3, c)) : c \in 0..8}

---------------------------------------------------------------------------
(* applyMove and generateLegalMoves on shared objects.  JavaScript arrays   *)
(* and objects are references: heap is the sequence of the objects          *)
(* allocated so far, an address is an index into it.  A row is the sequence *)
(* of its cells, a board is the sequence of the addresses of its rows, and  *)
(* a Position is [board |-> address of the board, turn |-> side].           *)

\* a Position allocated on an empty heap: rows at 1..10, the board at 11,
\* the Position at 12
heapOf(pos) == pos.board \o <<<<1, 2, 3, 4, 5, 6, 7, 8, 9, 10>>>>
                         \o <<[board |-> 11, turn |-> pos.turn]>>

\* the board at an address, as a value
boardAt(heap, arr) == [i \in 1..Len(heap[arr]) |-> heap[heap[arr][i]]]

\* mutant: [...board], a new board sharing the rows
mapCopyRows_Shallow(heap, arr) ==
    [heap |-> Append(heap, heap[arr]), addr |-> Len(heap) + 1]

\* board.map(row => [...row]): every row is copied (lines 201, 336); the
\* result is the heap and the address of the new board
mapCopyRows(heap, arr) ==
    LET n == Len(heap[arr])
        rows == [i \in 1..n |-> heap[heap[arr][i]]]
        refs == [i \in 1..n |-> Len(heap) + i]
    IN [heap |-> (heap \o rows) \o <<refs>>, addr |-> Len(heap) + n + 1]

\* lines 201-203 and 336-338: the copy of the board with the piece moved
moveOnCopy(heap, arr, from, to) ==
    LET c == mapCopyRows(heap, arr)
        rowOf(sq) == c.heap[c.addr][sq.row + 1]
        moved == c.heap[rowOf(from)][from.col + 1]
        h1 == [c.heap EXCEPT ![rowOf(to)][to.col + 1] = moved]
        h2 == [h1 EXCEPT ![rowOf(from)][from.col + 1] = null]
    IN [heap |-> h2, addr |-> c.addr]

\* applyMove (lines 335-343) on the Position at address p
applyMoveOnHeap(heap, p, from, to) ==
    LET m == moveOnCopy(heap, heap[p].board, from, to)
        new == [board |-> m.addr, turn |-> IF m.heap[p].turn = "w" THEN "b" ELSE "w"]
    IN [heap |-> Append(m.heap, new), addr |-> Len(m.heap) + 1]

\* the loop of lines 200-210 over the targets of the piece on from
RECURSIVE tryTargets(_, _, _, _, _)
tryTargets(heap, p, from, targets, moves) ==
    IF targets = {} THEN [heap |-> heap, moves |-> moves]
    ELSE LET to == CHOOSE t \in targets : TRUE
             turn == heap[p].turn
             m == moveOnCopy(heap, heap[p].board, from, to)
             newBoard == boardAt(m.heap, m.addr)
             kingSq == findKing(newBoard, turn)
             kept == IF kingSq = noSquare THEN FALSE
                     ELSE ~isUnderAttack(newBoard, kingSq, opponentOf(turn))
         IN IF kept
            THEN tryTargets(m.heap, p, from, targets \ {to},
                            moves \cup {[from |-> from, to |-> to]})
            ELSE tryTargets(m.heap, p, from, targets \ {to}, moves)

\* the inner loop of lines 196-211: row r from column c on
RECURSIVE generateInRow(_, _, _, _, _)
generateInRow(heap, p, r, c, moves) ==
    IF c >= 9 THEN [heap |-> heap, moves |-> moves]
    ELSE LET board == boardAt(heap, heap[p].board)
             piece == board[r + 1][c + 1]
         IN IF piece = null THEN generateInRow(heap, p, r, c + 1, moves)
            ELSE IF pieceColor(piece) # heap[p].turn
                 THEN generateInRow(heap, p, r, c + 1, moves)
            ELSE LET done == tryTargets(heap, p, Sq(r, c),
                                        generatePieceMoves(board, r, c, piece), moves)
                 IN generateInRow(done.heap, p, r, c + 1, done.moves)

\* the outer loop of lines 195-212: from row r on
RECURSIVE generateFromRow(_, _, _, _)
generateFromRow(heap, p, r, moves) ==
    IF r >= 10 THEN [heap |-> heap, moves |-> moves]
    ELSE LET done == generateInRow(heap, p, r, 0, moves)
         IN generateFromRow(done.heap, p, r + 1, done.moves)

\* generateLegalMoves (lines 191-215) on the Position at address p
generateLegalMovesOnHeap(heap, p) == generateFromRow(heap, p, 0, {})

\* ---- inputs of the model ------------------------------------------------
HeapCalls ==
    {[fn |-> "applyMove", heap |-> heapOf(parseFen(fen)), p |-> 12,
      from |-> f, to |-> t, done |-> FALSE] :
        fen \in ScenarioFens, f \in InputSquares, t \in InputSquares}
    \cup
    {[fn |-> "generateLegalMoves", heap |-> heapOf(pos), p |-> 12, done |-> FALSE] :
        pos \in FacingGenerals \cup {parseFen(fen) : fen \in ScenarioFens}}

---------------------------------------------------------------------------
(* The specifications *)

\* explainData = null (App.tsx line 35)
noExplain ==
    [fen |-> <<>>, userMove |-> <<>>, userScoreCp |-> 0, prevScoreCp |-> 0,
     side |-> "w", scoredReq |-> 0]

\* no library call
noCall == [fn |-> "none", done |-> TRUE]

\* the state after construction, but for the library call
InitApp ==
    /\ baseFen = STARTING_FEN
    /\ position = parseFen(STARTING_FEN)
    /\ moveHistory = <<>>
    /\ currentIndex = -1
    /\ gameOver = null
    /\ lastCall = [op |-> "init", ret |-> "undefined"]
    /\ before = noSnapshot
    /\ edBoard = parseFen(STARTING_FEN).board
    /\ edTurn = "w"
    /\ edFen = currentFenOf(parseFen(STARTING_FEN).board, "w")
    /\ connected = FALSE
    /\ info = noEvent
    /\ result = noEvent
    /\ analysing = FALSE
    /\ wsState = "connecting"
    /\ toServer = <<>>
    /\ toClient = <<>>
    /\ server = serverIdle
    /\ nextReq = 1
    /\ delivered = <<>>
    /\ analysed = <<>>
    /\ explainData = noExplain
    /\ prevFenRef = <<>>

Init ==
    /\ InitApp
    /\ lib = noCall

TryMove ==
    /\ currentIndex + 2 <= MaxHistory
    /\ \E from \in InputSquares, to \in InputSquares : tryMove(from, to)
    /\ before' = snapshot
    /\ UNCHANGED <<edVars, engVars, uiVars, lib>>

GoToMove ==
    /\ \E index \in IndexInputs : goToMove(index)
    /\ before' = noSnapshot
    /\ UNCHANGED <<edVars, engVars, uiVars, lib>>

Reset ==
    /\ \E fen \in ScenarioFens \cup {absent} : reset(fen)
    /\ before' = noSnapshot
    /\ UNCHANGED <<edVars, engVars, uiVars, lib>>

LoadMoves ==
    /\ \E moves \in MoveLists, startFen \in ScenarioFens \cup {absent} :
           loadMoves(moves, startFen)
    /\ before' = noSnapshot
    /\ UNCHANGED <<edVars, engVars, uiVars, lib>>

Next == TryMove \/ GoToMove \/ Reset \/ LoadMoves

Spec == Init /\ [][Next]_vars

\* a game played from the standard start: the moves are drawn from the
\* squares of the central file, where the two generals stand
MaxPlies == 8

PlaySquares == {Sq(r, 4) : r \in 0..9}

PlayMove ==
    /\ Len(moveHistory) < MaxPlies
    /\ \E from \in PlaySquares, to \in PlaySquares : tryMove(from, to)
    /\ before' = snapshot
    /\ UNCHANGED <<edVars, engVars, uiVars, lib>>

NextPlay == PlayMove

SpecPlay == Init /\ [][NextPlay]_vars

HandleCellClick ==
    /\ \E p \in EditPieces, sq \in EditSquares : handleCellClick(p, sq.row, sq.col)
    /\ UNCHANGED <<gameVars, lastCall, before, engVars, uiVars, lib>>

HandleClear == handleClear /\ UNCHANGED <<gameVars, lastCall, before, engVars, uiVars, lib>>

HandleReset == handleReset /\ UNCHANGED <<gameVars, lastCall, before, engVars, uiVars, lib>>

SetTurn ==
    /\ \E side \in Side : setTurn(side)
    /\ UNCHANGED <<gameVars, lastCall, before, engVars, uiVars, lib>>

HandleLoadFen ==
    /\ \E fenInput \in FenInputs : handleLoadFen(fenInput)
    /\ UNCHANGED <<gameVars, lastCall, before, engVars, uiVars, lib>>

\* App.tsx lines 136-140 and 149-153: the editor is shown, the text is loaded
\* into it (BoardEditor.tsx 57-68) and confirmed (70-73), which hands the text
\* of the editor's board to reset and removes the editor
HandleEditorConfirm ==
    /\ \E fenInput \in FenInputs :
           /\ trim(fenInput) # <<>>
           /\ reset(toFen(parseFen(trim(fenInput))))
    /\ before' = noSnapshot
    /\ UNCHANGED <<edVars, engVars, uiVars, lib>>

NextSetUp == HandleEditorConfirm \/ TryMove \/ GoToMove

SpecSetUp == Init /\ [][NextSetUp]_vars

NextEditor == HandleCellClick \/ HandleClear \/ HandleReset \/ SetTurn \/ HandleLoadFen

SpecEditor == Init /\ [][NextEditor]_vars

\* ---- the analysis client and its dispatcher ------------------------------
restVars == <<gameVars, lastCall, before, edVars, uiVars, lib>>

OnOpen ==
    /\ wsState = "connecting"
    /\ onopen
    /\ UNCHANGED <<info, result, analysing, toServer, toClient, server, nextReq,
                   delivered, analysed, restVars>>

\* the connection is lost or fails: the dispatcher of the connection ends
OnClose ==
    /\ wsState \in {"connecting", "open"}
    /\ wsState' = "closed"
    /\ onclose
    /\ toServer' = <<>>
    /\ toClient' = <<>>
    /\ server' = serverIdle
    /\ UNCHANGED <<info, result, nextReq, delivered, analysed, restVars>>

Analyse ==
    /\ nextReq <= MaxRequests
    /\ \E fen \in AnalysedFens : analyse(fen)
    /\ UNCHANGED <<connected, wsState, toClient, server, delivered, restVars>>

OnMessage ==
    /\ wsState = "open"
    /\ toClient # <<>>
    /\ onmessage(Head(toClient))
    /\ toClient' = Tail(toClient)
    /\ delivered' = IF Head(toClient).type \in {"info", "bestmove"}
                    THEN Append(delivered, Head(toClient)) ELSE delivered
    /\ UNCHANGED <<connected, wsState, toServer, server, nextReq, analysed, restVars>>

ServerSubmit ==
    /\ wsState = "open"
    /\ toServer # <<>>
    /\ server' = submit(server, Head(toServer).req)
    /\ toServer' = Tail(toServer)
    /\ UNCHANGED <<connected, info, result, analysing, wsState, toClient, nextReq,
                   delivered, analysed, restVars>>

EngineProgress ==
    /\ wsState = "open"
    /\ \E r \in server.running :
           /\ server.emitted[r] < MaxProgress
           /\ toClient' = relay(server, [type |-> "info", req |-> r,
                                          score_cp |-> scoreAtDepth(server.emitted[r] + 1)])
           /\ server' = [server EXCEPT !.emitted[r] = @ + 1]
    /\ UNCHANGED <<connected, info, result, analysing, wsState, toServer, nextReq,
                   delivered, analysed, restVars>>

EngineResult ==
    /\ wsState = "open"
    /\ \E r \in server.running :
           /\ toClient' = relay(server, [type |-> "bestmove", req |-> r])
           /\ server' = searchEnded(server, r)
    /\ UNCHANGED <<connected, info, result, analysing, wsState, toServer, nextReq,
                   delivered, analysed, restVars>>

\* the engine fails: the searches end, the request in flight has failed, and
\* the dispatcher sends a failure event or nothing
EngineCrash ==
    /\ wsState = "open"
    /\ server.running # {}
    /\ \E notify \in BOOLEAN :
           toClient' = IF notify THEN Append(toClient, [type |-> "error", req |-> 0])
                       ELSE toClient
    /\ server' = [server EXCEPT !.running = {}, !.cancelled = {}, !.waiting = 0]
    /\ UNCHANGED <<connected, info, result, analysing, wsState, toServer, nextReq,
                   delivered, analysed, restVars>>

NextEngine ==
    \/ OnOpen \/ OnClose \/ Analyse \/ OnMessage
    \/ ServerSubmit \/ EngineProgress \/ EngineResult \/ EngineCrash

\* messages in flight are delivered and a running search ends
FairEngine ==
    /\ WF_vars(OnOpen)
    /\ WF_vars(OnMessage)
    /\ WF_vars(ServerSubmit)
    /\ WF_vars(EngineResult)

SpecEngine == Init /\ [][NextEngine]_vars /\ FairEngine

\* ---- the library calls ---------------------------------------------------
\* ---- the application: the game, the analysis client and the explanation ---
\* moves played in the application
MaxAppMoves == 2

\* the move texts typed into the move input
TextMoves == {Uci("e", "3", "e", "4"), Uci("e", "0", "e", "1"), Uci("e", "6", "e", "5")}

\* the squares the moves on the board are drawn from: the two soldiers of the
\* central file and the squares in front of them
AppSquares == {Sq(6, 4), Sq(5, 4), Sq(4, 4), Sq(3, 4)}

\* engine.info?.score_cp ?? 0
scoreOf(event) == IF event.type = "info" THEN event.score_cp ELSE 0

\* App.tsx lines 41-48, with showAnalysis set and the editor closed: the
\* effect that runs after a render in which the position's text differs from
\* the one last sent
effectPending == connected /\ toFen(position) # prevFenRef

AnalyseEffect ==
    /\ nextReq <= MaxRequests
    /\ effectPending
    /\ analyse(toFen(position))
    /\ prevFenRef' = toFen(position)
    /\ UNCHANGED <<connected, wsState, toClient, server, delivered, gameVars,
                   lastCall, before, edVars, explainData, lib>>

\* lines 59-86 and 93-119: the body the two move handlers share.  info and
\* result are the values of the render the handler was created in;
\* scoredReq records the request whose progress event gave userScoreCp
\* (0 = none), which the application does not know
handleMove(from, to, uci) ==
    LET fen == toFen(position)
        side == position.turn
        prevScore == scoreOf(info)
    IN /\ tryMove(from, to)
       /\ explainData' =
              IF lastCall'.ret = "true" /\ result # noEvent
              THEN [fen |-> fen, userMove |-> uci, userScoreCp |-> -scoreOf(info),
                    prevScoreCp |-> prevScore, side |-> side, scoredReq |-> info.req]
              ELSE explainData

\* a handler runs after the effects of the last render
HandleBoardMove ==
    /\ Len(moveHistory) < MaxAppMoves
    /\ ~effectPending
    /\ \E from \in AppSquares, to \in AppSquares :
           handleMove(from, to, uciMove(from, to))
    /\ before' = snapshot
    /\ UNCHANGED <<edVars, engVars, prevFenRef, lib>>

HandleTextMove ==
    /\ Len(moveHistory) < MaxAppMoves
    /\ ~effectPending
    /\ \E uci \in TextMoves :
           handleMove(parseUciMove(uci).from, parseUciMove(uci).to, uci)
    /\ before' = snapshot
    /\ UNCHANGED <<edVars, engVars, prevFenRef, lib>>

NextApp ==
    \/ OnOpen \/ AnalyseEffect \/ OnMessage
    \/ ServerSubmit \/ EngineProgress \/ EngineResult
    \/ HandleBoardMove \/ HandleTextMove

SpecApp == Init /\ [][NextApp]_vars

appVars == <<gameVars, lastCall, before, edVars, engVars, uiVars>>

LibCalls ==
    UciCalls \cup LegalMovesCalls \cup CannonCalls \cup HeapCalls \cup NotationCalls

InitLib ==
    /\ InitApp
    /\ lib \in LibCalls \/ PieceCalls(lib)

UciMove ==
    /\ lib.fn = "uciMove" /\ ~lib.done
    /\ lib' = [fn |-> lib.fn, from |-> lib.from, to |-> lib.to, done |-> TRUE,
               token |-> uciMove(lib.from, lib.to),
               back |-> parseUciMove(uciMove(lib.from, lib.to))]
    /\ UNCHANGED appVars

GetLegalMovesUci ==
    /\ lib.fn = "getLegalMovesUci" /\ ~lib.done
    /\ lib' = [fn |-> lib.fn, pos |-> lib.pos, done |-> TRUE,
               ret |-> getLegalMovesUci(lib.pos)]
    /\ UNCHANGED appVars

GeneratePieceMoves ==
    /\ lib.fn = "generatePieceMoves" /\ ~lib.done
    /\ lib' = [fn |-> lib.fn, board |-> lib.board, row |-> lib.row, col |-> lib.col,
               done |-> TRUE,
               ret |-> generatePieceMoves(lib.board, lib.row, lib.col,
                                          lib.board[lib.row + 1][lib.col + 1])]
    /\ UNCHANGED appVars

ApplyMove ==
    /\ lib.fn = "applyMove" /\ ~lib.done
    /\ LET r == applyMoveOnHeap(lib.heap, lib.p, lib.from, lib.to)
       IN lib' = [fn |-> lib.fn, heap |-> lib.heap, p |-> lib.p, from |-> lib.from,
                  to |-> lib.to, done |-> TRUE, after |-> r.heap, ret |-> r.addr]
    /\ UNCHANGED appVars

GenerateLegalMoves ==
    /\ lib.fn = "generateLegalMoves" /\ ~lib.done
    /\ LET r == generateLegalMovesOnHeap(lib.heap, lib.p)
       IN lib' = [fn |-> lib.fn, heap |-> lib.heap, p |-> lib.p, done |-> TRUE,
                  after |-> r.heap, ret |-> r.moves]
    /\ UNCHANGED appVars

UciToChineseNotation ==
    /\ lib.fn = "uciToChineseNotation" /\ ~lib.done
    /\ lib' = [fn |-> lib.fn, uciMove |-> lib.uciMove, fen |-> lib.fen,
               board |-> lib.board, from |-> lib.from, to |-> lib.to, done |-> TRUE,
               ret |-> uciToChineseNotation(lib.uciMove, lib.fen)]
    /\ UNCHANGED appVars

NextLib ==
    \/ UciMove \/ GetLegalMovesUci \/ GeneratePieceMoves
    \/ ApplyMove \/ GenerateLegalMoves \/ UciToChineseNotation

SpecLib == InitLib /\ [][NextLib]_vars

---------------------------------------------------------------------------
(* Properties *)

\* the general of a side, as a board cell
generalOf(side) == IF side = "w" THEN "K" ELSE "k"

\* some piece of the side other than `side` has a pseudo-move onto the
\* general of `side`
generalAttacked(board, side) ==
    \E from \in Squares :
        LET p == board[from.row + 1][from.col + 1]
        IN /\ p # null
           /\ pieceColor(p) # side
           /\ \E t \in generatePieceMoves(board, from.row, from.col, p) :
                  board[t.row + 1][t.col + 1] = generalOf(side)

\* the pseudo-moves of the side to move
pseudoMoves(pos) ==
    {m \in [from : Squares, to : Squares] :
        /\ pos.board[m.from.row + 1][m.from.col + 1] # null
        /\ pieceColor(pos.board[m.from.row + 1][m.from.col + 1]) = pos.turn
        /\ m.to \in generatePieceMoves(pos.board, m.from.row, m.from.col,
                                        pos.board[m.from.row + 1][m.from.col + 1])}

\* C1: for every position the game reaches and every move the legal-move
\* generator returns for it, the position after the move has the general of
\* the side that moved on the board and not attacked by any opposing piece.
C1_LegalMovesKeepGeneralSafe ==
    \A m \in generateLegalMoves(position) :
        LET after == applyMove(position, m.from, m.to)
        IN /\ \E sq \in Squares :
                  after.board[sq.row + 1][sq.col + 1] = generalOf(position.turn)
           /\ ~generalAttacked(after.board, position.turn)

\* C1 witness: the side to move has legal moves and also a pseudo-move that
\* would leave its general attacked, so the filter has removed something.
C1_Witness ==
    /\ \E m \in generateLegalMoves(position) : TRUE
    /\ \E m \in pseudoMoves(position) :
           generalAttacked(applyMove(position, m.from, m.to).board, position.turn)

\* C2: checkmate implies in check with no legal move, stalemate implies not
\* in check with no legal move, and no position is both.
C2_MateAndStalemateExclusive ==
    /\ isCheckmate(position) =>
           isInCheck(position) /\ generateLegalMoves(position) = {}
    /\ isStalemate(position) =>
           ~isInCheck(position) /\ generateLegalMoves(position) = {}
    /\ ~(isCheckmate(position) /\ isStalemate(position))

\* C2 witness: a checkmated position reached by a played move.
C2_Witness == lastIs("tryMove", "true") /\ isCheckmate(position)

\* a board of 10 rows of 9 cells, each empty or a piece letter, and a side
wellFormed(board, turn) ==
    /\ Len(board) = 10
    /\ \A r \in 1..Len(board) :
           /\ Len(board[r]) = 9
           /\ \A c \in 1..Len(board[r]) : board[r][c] \in PieceChar \cup {null}
    /\ turn \in Side

\* C3: decoding the encoding of a position with a 10x9 board and a valid side
\* gives back the same board and the same side to move.
C3_FenRoundTrip ==
    wellFormed(edBoard, edTurn) =>
        parseFen(toFen([board |-> edBoard, turn |-> edTurn]))
            = [board |-> edBoard, turn |-> edTurn]

\* C3 witness: a 10x9 board, black to move, whose second rank has a piece
\* between two gaps and ends with a gap.
C3_Witness ==
    /\ wellFormed(edBoard, edTurn)
    /\ edTurn = "b"
    /\ edBoard[2][1] = null
    /\ edBoard[2][2] # null
    /\ edBoard[2][3] = null
    /\ edBoard[2][9] = null

\* the text describes exactly 10 ranks of 9 columns and names a side
describesPosition(text) ==
    LET parts == split(text, " ")
        ranks == IF parts = <<>> THEN <<>> ELSE split(parts[1], "/")
        width(rank) == Len(parseRank(rank))
    IN /\ Len(parts) >= 2
       /\ parts[2] \in {<<"w">>, <<"b">>}
       /\ Len(ranks) = 10
       /\ \A r \in 1..Len(ranks) :
              /\ width(ranks[r]) = 9
              /\ \A k \in 1..Len(ranks[r]) :
                     ranks[r][k] \in PieceChar \/ isGapDigit(ranks[r][k])

\* C4: decoding a text that does not describe 10 ranks of 9 columns, or whose
\* side token is not one of the two sides, fails: the editor, which ignores a
\* failed decode, keeps its board and its side when given such a text.
C4_MalformedFenRejected ==
    [][\A fenInput \in FenInputs :
           (handleLoadFen(fenInput) /\ ~describesPosition(trim(fenInput)))
               => UNCHANGED <<edBoard, edTurn>>]_vars

\* the move recorded by the last history entry
lastMove == parseUciMove(moveHistory[Len(moveHistory)].uci)

\* C5: a move attempt with an illegal move returns false and leaves the
\* position, the history, the index and the terminal state as they were.
C5_IllegalMoveRejected ==
    /\ lastIs("tryMove", "true") =>
           /\ before.gameOver = null
           /\ lastMove \in generateLegalMoves(before.position)
    /\ lastIs("tryMove", "false") => snapshot = before

\* C5 witness: a refused attempt in a game that is not over, on a position
\* where the side to move has legal moves.
C5_Witness ==
    /\ lastIs("tryMove", "false")
    /\ gameOver = null
    /\ currentIndex >= 0
    /\ \E m \in generateLegalMoves(position) : TRUE

\* C6: a successful move at index i keeps the first i+1 history entries,
\* drops the later ones, appends the new entry and points the index at it.
C6_MoveTruncatesForwardHistory ==
    lastIs("tryMove", "true") =>
        LET i == before.currentIndex
            newPos == applyMove(before.position, lastMove.from, lastMove.to)
        IN /\ Len(moveHistory) = i + 2
           /\ currentIndex = Len(moveHistory) - 1
           /\ \A k \in 1..(i + 1) : moveHistory[k] = before.moveHistory[k]
           /\ moveHistory[i + 2].fen = toFen(newPos)
           /\ position = newPos

\* C6 witness: a move played from the middle of a longer history.
C6_Witness ==
    /\ lastIs("tryMove", "true")
    /\ before.currentIndex >= 0
    /\ Len(before.moveHistory) > before.currentIndex + 1

\* the position after the first n moves of a history, played from a base
RECURSIVE positionAfterOf(_, _, _)
positionAfterOf(base, history, n) ==
    IF n = 0 THEN parseFen(base)
    ELSE LET m == parseUciMove(history[n].uci)
         IN applyMove(positionAfterOf(base, history, n - 1), m.from, m.to)

positionAfter(n) == positionAfterOf(baseFen, moveHistory, n)

\* C7: navigating to an index outside [-1, length-1] changes nothing;
\* navigating to an index inside it sets the index, sets the position to the
\* one recorded there (the base position for -1) and keeps the history.
C7_NavigationSetsIndexAndPosition ==
    [][\A index \in IndexInputs :
           goToMove(index) =>
               IF index < -1 \/ index > Len(moveHistory) - 1
               THEN UNCHANGED gameVars
               ELSE /\ currentIndex' = index
                    /\ position' = positionAfter(index + 1)
                    /\ UNCHANGED <<moveHistory, baseFen>>]_vars

\* C7 witness: navigation has moved the index to an entry before the last.
C7_Witness ==
    /\ lastCall.op = "goToMove"
    /\ Len(moveHistory) >= 2
    /\ currentIndex >= 0
    /\ currentIndex < Len(moveHistory) - 1
    /\ position = positionAfter(currentIndex + 1)

\* the terminal state a position calls for
terminalState(pos) ==
    IF isCheckmate(pos) THEN (IF pos.turn = "w" THEN BlackWins ELSE RedWins)
    ELSE IF isStalemate(pos) THEN Draw
    ELSE null

\* each of the first n moves of a history was legal where it was played
RECURSIVE historyLegalOf(_, _, _)
historyLegalOf(base, history, n) ==
    IF n = 0 THEN TRUE
    ELSE /\ historyLegalOf(base, history, n - 1)
         /\ parseUciMove(history[n].uci)
                \in generateLegalMoves(positionAfterOf(base, history, n - 1))

historyLegal == historyLegalOf(baseFen, moveHistory, Len(moveHistory))

\* the call applied moves, all of them legal where they were played
movesApplied(call, base, history) ==
    /\ call.op = "loadMoves" \/ call = [op |-> "tryMove", ret |-> "true"]
    /\ historyLegalOf(base, history, Len(history))

\* C8: navigation never changes the terminal state, and after an operation
\* that applies moves the terminal state is the one the current position
\* calls for.
C8_TerminalStateFollowsMoves ==
    [][/\ \A index \in IndexInputs : goToMove(index) => gameOver' = gameOver
       /\ movesApplied(lastCall', baseFen', moveHistory')
              => gameOver' = terminalState(position')]_vars

\* C9: when every move of a sequence of legal moves that ends in mate has
\* been applied, the position is checkmate and the terminal state names the
\* side that gave mate.
C9_MateSequenceNamesWinner ==
    (/\ lastCall.op \in {"tryMove", "loadMoves"}
     /\ Len(moveHistory) >= 1
     /\ currentIndex = Len(moveHistory) - 1
     /\ historyLegal
     /\ position = positionAfter(Len(moveHistory))
     /\ isCheckmate(position))
        => gameOver = (IF position.turn = "w" THEN BlackWins ELSE RedWins)

\* C10: loading a sequence stops at its first illegal move, so every history
\* entry records a move that was legal in the position before it.
C10_NoHistoryEntryForIllegalMove == historyLegal

\* C11: when a request is superseded by a later one, the events the client
\* shows contain no event of the earlier request after an event of the later.
C11_NoSupersededEventAfterNewer ==
    \A i \in 1..Len(delivered) : \A j \in 1..Len(delivered) :
        i < j => delivered[i].req <= delivered[j].req

\* C11 witness: the client has shown an event of request 1 and then an event
\* of request 2, and request 1 was superseded before its result arrived.
C11_Witness ==
    /\ \E i \in 1..Len(delivered) : \E j \in 1..Len(delivered) :
           i < j /\ delivered[i].req = 1 /\ delivered[j].req = 2
    /\ \A k \in 1..Len(delivered) :
           delivered[k] # [type |-> "bestmove", req |-> 1]

\* C12: whenever the client is analysing it eventually stops analysing.
C12_AnalysingEventuallyEnds == analysing ~> ~analysing

\* the squares of a board that hold a piece
occupied(board) == {sq \in Squares : board[sq.row + 1][sq.col + 1] # null}

\* the square of a piece that stands on the board once
squareOf(board, piece) ==
    CHOOSE sq \in Squares : board[sq.row + 1][sq.col + 1] = piece

\* the board holds the two generals and nothing else, on one file
onlyFacingGenerals(board) ==
    /\ Cardinality(occupied(board)) = 2
    /\ \E a \in occupied(board) : board[a.row + 1][a.col + 1] = "K"
    /\ \E b \in occupied(board) : board[b.row + 1][b.col + 1] = "k"
    /\ squareOf(board, "K").col = squareOf(board, "k").col

\* C13: with only the two generals on the board, on one file, the move of the
\* general of the side to move onto the other general's square is legal.
C13_FlyingGeneralCapture ==
    (lib.fn = "getLegalMovesUci" /\ lib.done /\ onlyFacingGenerals(lib.pos.board))
        => uciMove(squareOf(lib.pos.board, generalOf(lib.pos.turn)),
                   squareOf(lib.pos.board, generalOf(opponentOf(lib.pos.turn))))
               \in lib.ret

\* C13 witness: the legal moves of black have been generated for two
\* generals alone on the central file.
C13_Witness ==
    /\ lib.fn = "getLegalMovesUci" /\ lib.done
    /\ onlyFacingGenerals(lib.pos.board)
    /\ lib.pos.turn = "b"
    /\ squareOf(lib.pos.board, "k").col = 4
    /\ Cardinality(lib.ret) >= 2

\* the squares strictly between two squares of one rank or one file
between(a, b) ==
    {sq \in Squares :
        \/ /\ a.row = b.row /\ sq.row = a.row
           /\ (a.col < sq.col /\ sq.col < b.col) \/ (b.col < sq.col /\ sq.col < a.col)
        \/ /\ a.col = b.col /\ sq.col = a.col
           /\ (a.row < sq.row /\ sq.row < b.row) \/ (b.row < sq.row /\ sq.row < a.row)}

\* the number of pieces strictly between two squares
screens(board, a, b) == Cardinality(between(a, b) \cap occupied(board))

\* C14: a cannon's destination that is occupied holds an opposing piece with
\* exactly one piece between it and the cannon on their rank or file; a
\* destination that is empty has no piece between.
C14_CannonNeedsOneScreen ==
    (lib.fn = "generatePieceMoves" /\ lib.done
        /\ lib.board[lib.row + 1][lib.col + 1] \in {"C", "c"}) =>
        LET from == Sq(lib.row, lib.col)
            side == pieceColor(lib.board[lib.row + 1][lib.col + 1])
        IN \A t \in Squares :
               LET cell == lib.board[t.row + 1][t.col + 1]
                   canCapture == /\ cell # null
                                 /\ pieceColor(cell) # side
                                 /\ t.row = from.row \/ t.col = from.col
                                 /\ screens(lib.board, from, t) = 1
                   canSlide == /\ cell = null
                               /\ t.row = from.row \/ t.col = from.col
                               /\ screens(lib.board, from, t) = 0
               IN t \in lib.ret <=> (t # from /\ (canCapture \/ canSlide))

\* C14 witness: a cannon with two pieces of the other side and then one more
\* on a line captures the second one only.
C14_Witness ==
    /\ lib.fn = "generatePieceMoves" /\ lib.done
    /\ lib.board[lib.row + 1][lib.col + 1] \in {"C", "c"}
    /\ \E t \in lib.ret : lib.board[t.row + 1][t.col + 1] # null
    /\ \E t \in Squares :
           /\ t \notin lib.ret
           /\ lib.board[t.row + 1][t.col + 1] # null
           /\ pieceColor(lib.board[t.row + 1][t.col + 1])
                  # pieceColor(lib.board[lib.row + 1][lib.col + 1])
           /\ screens(lib.board, Sq(lib.row, lib.col), t) = 2
    /\ \E t \in Squares :
           /\ t \notin lib.ret
           /\ lib.board[t.row + 1][t.col + 1] # null
           /\ pieceColor(lib.board[t.row + 1][t.col + 1])
                  # pieceColor(lib.board[lib.row + 1][lib.col + 1])
           /\ screens(lib.board, Sq(lib.row, lib.col), t) = 0

\* the move b2e2
b2e2 == <<"b", "2", "e", "2">>

\* C15: on the starting board b2e2 is legal when red is to move and is not
\* legal when black is to move.
C15_CannonToCentreOnlyForRed ==
    (/\ lib.fn = "getLegalMovesUci" /\ lib.done
     /\ lib.pos.board = parseFen(STARTING_FEN).board)
        => (b2e2 \in lib.ret <=> lib.pos.turn = "w")

\* C15 witness: the legal moves of black on the starting board have been
\* generated, and there are some.
C15_Witness ==
    /\ lib.fn = "getLegalMovesUci" /\ lib.done
    /\ lib.pos.board = parseFen(STARTING_FEN).board
    /\ lib.pos.turn = "b"
    /\ lib.ret # {}

\* the file letter of a column and the rank digit of a row
fileLetter(col) ==
    CASE col = 0 -> "a" [] col = 1 -> "b" [] col = 2 -> "c" [] col = 3 -> "d"
      [] col = 4 -> "e" [] col = 5 -> "f" [] col = 6 -> "g" [] col = 7 -> "h"
      [] col = 8 -> "i"

rankDigit(row) ==
    CASE row = 9 -> "0" [] row = 8 -> "1" [] row = 7 -> "2" [] row = 6 -> "3"
      [] row = 5 -> "4" [] row = 4 -> "5" [] row = 3 -> "6" [] row = 2 -> "7"
      [] row = 1 -> "8" [] row = 0 -> "9"

\* C20: the move token of two squares is the four characters file, rank,
\* file, rank (a-i for columns 0-8, digit d for row 9-d), and parsing it gives
\* the two squares back.
C20_UciRoundTrip ==
    (lib.fn = "uciMove" /\ lib.done) =>
        /\ lib.token = <<fileLetter(lib.from.col), rankDigit(lib.from.row),
                         fileLetter(lib.to.col), rankDigit(lib.to.row)>>
        /\ Len(lib.token) = 4
        /\ lib.back = [from |-> lib.from, to |-> lib.to]

\* C20 witness: a token between the two far corners of the board.
C20_Witness ==
    /\ lib.fn = "uciMove" /\ lib.done
    /\ lib.from = Sq(0, 0)
    /\ lib.to = Sq(9, 8)
    /\ lib.token = <<"a", "9", "i", "0">>

\* the side to move of the k-th position of the game record: the base
\* position for k = 0, the position after the k-th recorded move otherwise
recordTurn(k) ==
    IF k = 0 THEN parseFen(baseFen).turn ELSE parseFen(moveHistory[k].fen).turn

\* C16: in the game record the side to move of each position is the opposite
\* of the side to move of the position before it.
C16_SideToMoveAlternates ==
    \A k \in 1..Len(moveHistory) :
        /\ recordTurn(k) \in Side
        /\ recordTurn(k - 1) \in Side
        /\ recordTurn(k) # recordTurn(k - 1)

\* C16 witness: a record of three moves, the last one played by tryMove.
C16_Witness ==
    /\ Len(moveHistory) >= 3
    /\ lastIs("tryMove", "true")
    /\ position.turn = recordTurn(Len(moveHistory))

\* the Position at an address, as a value
positionAt(heap, p) == [board |-> boardAt(heap, heap[p].board), turn |-> heap[p].turn]

\* C17: applyMove and generateLegalMoves leave the Position they are given,
\* its board and every row of it as they were: every object that existed
\* before the call is unchanged after it.
C17_ArgumentPositionUnchanged ==
    (lib.fn \in {"applyMove", "generateLegalMoves"} /\ lib.done) =>
        \A a \in 1..Len(lib.heap) : lib.after[a] = lib.heap[a]

\* C17 witness: applyMove has moved a piece on a copy, generateLegalMoves has
\* tried moves on copies and returned the legal ones.
C17_Witness ==
    /\ lib.done
    /\ \/ /\ lib.fn = "applyMove"
          /\ positionAt(lib.heap, lib.p).board[lib.from.row + 1][lib.from.col + 1] # null
          /\ lib.from # lib.to
          /\ positionAt(lib.after, lib.ret)
                 = applyMove(positionAt(lib.heap, lib.p), lib.from, lib.to)
          /\ positionAt(lib.after, lib.ret).board # positionAt(lib.heap, lib.p).board
       \/ /\ lib.fn = "generateLegalMoves"
          /\ lib.ret # {}
          /\ lib.ret = generateLegalMoves(positionAt(lib.heap, lib.p))
          /\ Len(lib.after) > Len(lib.heap)

\* the ranks of the placement field of a board-state text
ranksOf(text) == split(split(text, " ")[1], "/")

isDigit(ch) == ch \in {"0", "1", "2", "3", "4", "5", "6", "7", "8", "9"}

\* C18: in the text of a 10x9 board no rank contains the digit 0 or two
\* adjacent digits, and every rank decodes to its row, so each maximal run of
\* empty squares is written as one digit from 1 to 9.
C18_GapsMergedAndNonZero ==
    wellFormed(edBoard, edTurn) =>
        LET ranks == ranksOf(toFen([board |-> edBoard, turn |-> edTurn]))
        IN /\ Len(ranks) = 10
           /\ \A r \in 1..Len(ranks) :
                  /\ \A k \in 1..Len(ranks[r]) : ranks[r][k] # "0"
                  /\ \A k \in 1..(Len(ranks[r]) - 1) :
                         ~(isDigit(ranks[r][k]) /\ isDigit(ranks[r][k + 1]))
                  /\ parseRank(ranks[r]) = edBoard[r]

\* C18 witness: a 10x9 board whose second rank is one empty square, a piece,
\* six empty squares and a piece, above a rank that is empty.
C18_Witness ==
    /\ wellFormed(edBoard, edTurn)
    /\ ranksOf(edFen)[2] = <<"1", "p", "6", "p">>
    /\ ranksOf(edFen)[4] = <<"9">>

\* C19: the notation of a move of a piece is its name, its origin file, the
\* action and the quantity.  Files count from 9 - col for the first mover and
\* col + 1 for the second; the action is lateral on an unchanged rank, advance
\* toward the opposing side and retreat otherwise; the quantity is the number
\* of ranks traversed for a chariot, cannon, general or soldier moving along
\* its file and the destination file otherwise; the first mover's digits are
\* ideographic and the second mover's are numerals.
C19_NotationRule ==
    (lib.fn = "uciToChineseNotation" /\ lib.done
        /\ lib.board[lib.from.row + 1][lib.from.col + 1] # null) =>
        LET piece == lib.board[lib.from.row + 1][lib.from.col + 1]
            first == piece \in RED_PIECES
            file(col) == IF first THEN 9 - col ELSE col + 1
            digit(n) == IF first THEN RED_DIGITS[n + 1] ELSE DigitChars[n]
            rows == IF first THEN lib.from.row - lib.to.row
                    ELSE lib.to.row - lib.from.row
            vertical == lib.from.col = lib.to.col /\ rows # 0
            counted == piece \in {"R", "C", "K", "P", "r", "c", "k", "p"}
        IN /\ Len(lib.ret) = 4
           /\ lib.ret[1] = PIECE_NAMES(piece)
           /\ lib.ret[2] = digit(file(lib.from.col))
           /\ lib.ret[3] = (IF rows = 0 THEN "U+5E73"
                            ELSE IF rows > 0 THEN "U+8FDB" ELSE "U+9000")
           /\ lib.ret[4] = (IF counted /\ vertical
                            THEN digit(IF rows > 0 THEN rows ELSE -rows)
                            ELSE digit(file(lib.to.col)))

\* C19 witness: the second mover's horse retreats from the file it counts as 3
\* to the file it counts as 2, written with numerals.
C19_Witness ==
    /\ lib.fn = "uciToChineseNotation" /\ lib.done
    /\ lib.ret = <<"U+9A6C", "3", "U+9000", "2">>

\* the number of squares of a board that hold the piece
count(board, piece) ==
    Cardinality({sq \in Squares : board[sq.row + 1][sq.col + 1] = piece})

\* C22: in every position reached from the standard starting position by
\* successful tryMove calls each side has exactly one general on the board.
C22_OneGeneralPerSide ==
    /\ count(position.board, "K") = 1
    /\ count(position.board, "k") = 1

\* C22 witness: black, whose general was attacked by a soldier, has answered
\* with a legal move; taking the soldier, which would have exposed the general
\* to the other general, was not among them.
C22_Witness ==
    /\ Len(moveHistory) >= 6
    /\ lastIs("tryMove", "true")
    /\ position.turn = "w"
    /\ isInCheck(before.position)

\* the piece generatePieceMoves was called for, and its square
calledPiece == lib.board[lib.row + 1][lib.col + 1]
calledSquare == Sq(lib.row, lib.col)

\* the general of the other side
otherGeneral(piece) == IF piece \in RED_PIECES THEN "k" ELSE "K"

\* C23: every destination generated for a general or an advisor that does
\* not hold the opposing general lies in columns 3-5 and rows 7-9 for the
\* first mover, rows 0-2 for the second.
C23_GeneralAndAdvisorStayInPalace ==
    (lib.fn = "generatePieceMoves" /\ lib.done
        /\ calledPiece \in {"K", "k", "A", "a"}) =>
        \A t \in lib.ret :
            \/ lib.board[t.row + 1][t.col + 1] = otherGeneral(calledPiece)
            \/ /\ t.col \in 3..5
               /\ calledPiece \in RED_PIECES => t.row \in 7..9
               /\ calledPiece \in BLACK_PIECES => t.row \in 0..2

\* C23 witness: a general on the edge of its palace has destinations inside
\* it and the capture of the opposing general outside it.
C23_Witness ==
    /\ lib.fn = "generatePieceMoves" /\ lib.done
    /\ calledPiece = "K" /\ lib.row = 7
    /\ \E t \in lib.ret : t.row < 7 /\ lib.board[t.row + 1][t.col + 1] = "k"
    /\ \E t \in lib.ret : t.row = 8

\* the piece on a square of the board of the call
cellAt(t) == lib.board[t.row + 1][t.col + 1]

\* the piece on the square belongs to the side of the called piece
ownPieceAt(t) ==
    /\ cellAt(t) # null
    /\ (cellAt(t) \in RED_PIECES) = (calledPiece \in RED_PIECES)

\* C24: an elephant's destinations are exactly the squares two rows and two
\* columns away that are on the board, in the half of the moving side (rows
\* 5-9 for the first mover, 0-4 for the second), not occupied by an own piece,
\* and whose diagonal midpoint is empty.
C24_ElephantDestinations ==
    (lib.fn = "generatePieceMoves" /\ lib.done /\ calledPiece \in {"B", "b"}) =>
        \A t \in Squares :
            t \in lib.ret <=>
                /\ t.row - lib.row \in {-2, 2}
                /\ t.col - lib.col \in {-2, 2}
                /\ IF calledPiece = "B" THEN t.row \in 5..9 ELSE t.row \in 0..4
                /\ ~ownPieceAt(t)
                /\ cellAt(Sq((t.row + lib.row) \div 2, (t.col + lib.col) \div 2)) = null

\* C24 witness: an elephant on the row next to the midline, with one of the
\* two midpoints behind it occupied, has the other square behind it as its
\* only destination; the two squares across the midline are on the board.
C24_Witness ==
    /\ lib.fn = "generatePieceMoves" /\ lib.done
    /\ calledPiece = "B" /\ lib.row = 5 /\ lib.col \in 2..6
    /\ Cardinality(lib.ret) = 1
    /\ \E t \in lib.ret : t.row = 7
    /\ \E c \in {lib.col - 1, lib.col + 1} : cellAt(Sq(6, c)) # null
    /\ cellAt(Sq(4, lib.col - 1)) = null /\ cellAt(Sq(4, lib.col + 1)) = null

\* C25: a soldier's destinations are the square one step toward the opposing
\* side (row - 1 for the first mover, row + 1 for the second) and, only when
\* it stands in the opposing half, the squares one step left and right, each
\* unless an own piece holds it; none is on a row behind the soldier.
C25_SoldierDestinations ==
    (lib.fn = "generatePieceMoves" /\ lib.done /\ calledPiece \in {"P", "p"}) =>
        LET ahead == IF calledPiece = "P" THEN lib.row - 1 ELSE lib.row + 1
            crossed == IF calledPiece = "P" THEN lib.row <= 4 ELSE lib.row >= 5
        IN /\ \A t \in Squares :
                  t \in lib.ret <=>
                      /\ ~ownPieceAt(t)
                      /\ \/ t.row = ahead /\ t.col = lib.col
                         \/ /\ crossed
                            /\ t.row = lib.row
                            /\ t.col - lib.col \in {-1, 1}
           /\ \A t \in lib.ret :
                  IF calledPiece = "P" THEN t.row <= lib.row ELSE t.row >= lib.row

\* C25 witness: a soldier of the second mover in the opposing half, with an
\* own piece beside it, steps ahead or to the other side.
C25_Witness ==
    /\ lib.fn = "generatePieceMoves" /\ lib.done
    /\ calledPiece = "p" /\ lib.row \in 5..8 /\ lib.col \in 1..7
    /\ Cardinality(lib.ret) = 2
    /\ Sq(lib.row + 1, lib.col) \in lib.ret
    /\ \E c \in {lib.col - 1, lib.col + 1} : ownPieceAt(Sq(lib.row, c))

\* C26: a horse's destinations are exactly the squares two steps along one
\* axis and one along the other that are on the board, not occupied by an own
\* piece, and whose leg (the square next to the horse one step out along the
\* long axis) is empty; an occupied leg removes both destinations sharing it.
C26_HorseDestinations ==
    (lib.fn = "generatePieceMoves" /\ lib.done /\ calledPiece \in {"N", "n"}) =>
        LET dr(t) == t.row - lib.row
            dc(t) == t.col - lib.col
            leg(t) == IF dr(t) \in {-2, 2} THEN Sq(lib.row + dr(t) \div 2, lib.col)
                      ELSE Sq(lib.row, lib.col + dc(t) \div 2)
        IN \A t \in Squares :
               t \in lib.ret <=>
                   /\ \/ dr(t) \in {-2, 2} /\ dc(t) \in {-1, 1}
                      \/ dr(t) \in {-1, 1} /\ dc(t) \in {-2, 2}
                   /\ ~ownPieceAt(t)
                   /\ cellAt(leg(t)) = null

\* C26 witness: a horse in the middle of the board with a piece of the other
\* side on one leg has the six destinations of the other three legs.
C26_Witness ==
    /\ lib.fn = "generatePieceMoves" /\ lib.done
    /\ calledPiece = "N" /\ lib.row \in 2..7 /\ lib.col \in 2..6
    /\ cellAt(Sq(lib.row - 1, lib.col)) = "p"
    /\ Cardinality(lib.ret) = 6
    /\ \A t \in lib.ret : t.row # lib.row - 2

\* both generals stand on one file of the board with no piece between them
generalsFace(board) ==
    \E a \in Squares, b \in Squares :
        /\ board[a.row + 1][a.col + 1] = "K"
        /\ board[b.row + 1][b.col + 1] = "k"
        /\ a.col = b.col
        /\ screens(board, a, b) = 0

\* C27: no legal move produces a board on which both generals stand on one
\* file with no piece between them.
C27_NoMoveExposesGenerals ==
    (lib.fn = "getLegalMovesUci" /\ lib.done) =>
        \A u \in lib.ret :
            LET m == parseUciMove(u)
            IN ~generalsFace(applyMove(lib.pos, m.from, m.to).board)

\* C27 witness: the side to move has legal moves, and a move of the shape of
\* its piece that would leave the two generals facing each other is not one.
C27_Witness ==
    /\ lib.fn = "getLegalMovesUci" /\ lib.done
    /\ lib.ret # {}
    /\ ~generalsFace(lib.pos.board)
    /\ \E m \in pseudoMoves(lib.pos) :
           /\ lib.pos.board[m.from.row + 1][m.from.col + 1] \notin {"K", "k"}
           /\ generalsFace(applyMove(lib.pos, m.from, m.to).board)
           /\ uciMove(m.from, m.to) \notin lib.ret

\* C28: while gameOver is set, a tryMove returns false and changes nothing,
\* and goToMove leaves gameOver set; only reset and loadMoves clear it.
C28_FinishedGameRefusesMoves ==
    [][gameOver # null =>
          /\ lastCall'.op = "tryMove" =>
                 (lastCall'.ret = "false" /\ UNCHANGED gameVars)
          /\ lastCall'.op = "goToMove" => gameOver' = gameOver]_vars

\* C28 witness: in a game finished by a move, after goToMove has gone back to
\* a position in which a move between the input squares is legal, a tryMove
\* has returned false.
C28_Witness ==
    /\ gameOver # null
    /\ lastIs("tryMove", "false")
    /\ moveHistory # <<>>
    /\ currentIndex < Len(moveHistory) - 1
    /\ ~isCheckmate(position) /\ ~isStalemate(position)
    /\ \E from \in InputSquares, to \in InputSquares : isLegalMove(position, from, to)

\* C29: a position whose side to move has no general on the board is not in
\* check and has no legal move, so it is a stalemate and not a checkmate; and
\* a tryMove that captures the opposing general leaves the label of a draw.
C29_MissingGeneralIsDraw ==
    [][/\ (\A sq \in Squares :
               position.board[sq.row + 1][sq.col + 1] # generalOf(position.turn)) =>
              /\ ~isInCheck(position)
              /\ isEmpty(generateLegalMoves(position))
              /\ isStalemate(position)
              /\ ~isCheckmate(position)
       /\ (/\ lastCall'.op = "tryMove" /\ lastCall'.ret = "true"
           /\ count(position.board, generalOf(opponentOf(position.turn))) = 1
           /\ count(position'.board, generalOf(opponentOf(position.turn))) = 0)
              => gameOver' = Draw]_vars

\* C29 witness: a successful tryMove has captured the general of the side now
\* to move, and the game is a draw.
C29_Witness ==
    /\ lastIs("tryMove", "true")
    /\ count(before.position.board, generalOf(position.turn)) = 1
    /\ count(position.board, generalOf(position.turn)) = 0
    /\ gameOver = Draw

\* C30: the current index lies between -1 and the history length minus one,
\* and the position is the one recorded at the current index (the base
\* position when the index is -1).
C30_IndexAndPositionConsistent ==
    /\ currentIndex \in -1..(Len(moveHistory) - 1)
    /\ position = IF currentIndex = -1 THEN parseFen(baseFen)
                  ELSE parseFen(moveHistory[currentIndex + 1].fen)

\* the text of the position reached by the move the explanation is about
fenAfterUserMove ==
    LET m == parseUciMove(explainData.userMove)
    IN toFen(applyMove(parseFen(explainData.fen), m.from, m.to))

\* C21: the score after the move given to the explanation, when a progress
\* event supplied it, is the negation of a score of the analysis of the
\* position reached by the move, not of the analysis of the position before it.
C21_UserScoreFromNextAnalysis ==
    (explainData # noExplain /\ explainData.scoredReq # 0) =>
        analysed[explainData.scoredReq] = fenAfterUserMove

=============================================================================
